---- MODULE Spec2Model ----
(***************************************************************************)
(* Model of the three-party debate driver of AI-Debate-Advisor:            *)
(* main.py (debate) and streamlit_debate.py (run_debate).                  *)
(*                                                                         *)
(* The driver is one coroutine.  Its suspension points are the awaits on   *)
(* the Content Generator (Action._aask) and on the Evidence Provider       *)
(* (Researcher.research_topic); pc names the point the coroutine is at.    *)
(* Strings built by concatenation or join are sequences of their parts.    *)
(***************************************************************************)
EXTENDS Integers, Sequences, FiniteSets, TLC

\* ---- bounds of the model ----
MaxRounds == 12     \* largest n_round explored
MaxCalls == 4       \* request_research calls made by the method harness
MaxSubQueries == 3  \* most sub-queries in a result of link discovery
MaxLinks == 3       \* most links of one sub-query

\* ---- values the external collaborators may return ----
Texts == {"x", "y"}        \* speeches, evaluations, advice the Content Generator may return
Queries == {"q"}           \* research queries the Content Generator may return
Reports == {"rep"}         \* reports the Evidence Provider may return
Topic == "topic"           \* the idea handed to debate / run_debate

Names == {"Principal", "John", "Mom"}
Entries == {"cli", "form"}   \* main.py debate / streamlit_debate.py run_debate

VARIABLES
    entry,            \* which entry point runs
    idea,             \* parameter idea
    n_round,          \* parameter n_round
    pc,               \* position of the coroutine
    exc,              \* exception raised and not caught: its kind and where it arose
    debator,          \* Debator objects: name -> fields
    memory,           \* rc.memory of each Debator
    news,             \* rc.news of each Debator
    idx,              \* position of "for debater in debaters" (1-based)
    rr_self,          \* request_research: self
    query,            \* request_research: local query
    ret,              \* value returned by the last request_research
    research_log,     \* run_debate: research_log
    current_speaker, second_speaker, third_speaker,
    all_messages,     \* debate: all_messages
    debate_log,       \* run_debate: debate_log
    msg,              \* debate: msg, the message handed to the next speaker
    round_num,        \* debate: loop variable of range(n_round)
    prompt,           \* arguments of the outstanding SpeakAloud.run
    acts,             \* arguments of every SpeakAloud.run made so far
    evaluation, advice,
    evalCalls,        \* arguments of every EvaluateDebate.run
    adviseCalls,      \* arguments of every ProvideAdvice.run
    genCalls,         \* number of Content Generator calls (_aask)
    provCalls,        \* queries handed to Researcher.research_topic
    rrCalls,          \* number of request_research calls per Debator
    calls,            \* number of calls made by the method harness
    rt                \* Researcher.research_topic: its locals and the calls it made

vars == <<entry, idea, n_round, pc, exc, debator, memory, news, idx, rr_self,
          query, ret, research_log, current_speaker, second_speaker,
          third_speaker, all_messages, debate_log, msg, round_num, prompt,
          acts, evaluation, advice, evalCalls, adviseCalls, genCalls,
          provCalls, rrCalls, calls, rt>>

\* ---- helpers ----
NoException == [kind |-> "none", at |-> "none"]
Raised(k, where) == [kind |-> k, at |-> where]

InSeq(x, s) == \E i \in 1..Len(s) : s[i] = x

\* ---- class Debator: construction (debate / run_debate, first three lines) ----
NewDebator(n, p, o1, o2) ==
    [name |-> n, profile |-> p, opponent_name1 |-> o1, opponent_name2 |-> o2,
     research_info |-> <<>>, research_count |-> 0, max_research |-> 1]

School == NewDebator("Principal", "School", "John", "Mom")
Student == NewDebator("John", "Student", "Mom", "Principal")
Parent == NewDebator("Mom", "Parent", "Principal", "John")

\* variant: the research loop leaves the last debater out
debaters_two == <<"Principal", "John">>

\* debaters = [School, Student, Parent]
debaters == <<"Principal", "John", "Mom">>

\* self._watch([UserRequirement, SpeakAloud])
watch == {"UserRequirement", "SpeakAloud"}

LimitReached == "Research limit reached"

\* ---- Debator.request_research ----
\* variant: the budget test is strict
BudgetExceeded(count, max) == count > max

\* if self.research_count >= self.max_research
BudgetExhausted(count, max) == count >= max

\* self.research_info += f"\n\nResearch Query: {query}\nResearch Result: {research_result}"
LedgerAppend(info, q, r) ==
    info \o <<"\n\nResearch Query: ", q, "\nResearch Result: ", r>>

\* variant: a refused request is counted too
request_research_counting(a) ==
    /\ rr_self' = a
    /\ rrCalls' = [rrCalls EXCEPT ![a] = @ + 1]
    /\ IF BudgetExhausted(debator[a].research_count, debator[a].max_research)
       THEN /\ ret' = LimitReached
            /\ pc' = "rr_returned"
            /\ debator' = [debator EXCEPT ![a].research_count = @ + 1]
            /\ UNCHANGED genCalls
       ELSE /\ pc' = "rr_query"
            /\ genCalls' = genCalls + 1
            /\ UNCHANGED <<ret, debator>>
    /\ UNCHANGED <<query, provCalls, exc>>

\* The call, up to its first await (RequestResearch.run -> _aask).
request_research(a) ==
    /\ rr_self' = a
    /\ rrCalls' = [rrCalls EXCEPT ![a] = @ + 1]
    /\ IF BudgetExhausted(debator[a].research_count, debator[a].max_research)
       THEN /\ ret' = LimitReached
            /\ pc' = "rr_returned"
            /\ UNCHANGED genCalls
       ELSE /\ pc' = "rr_query"
            /\ genCalls' = genCalls + 1
            /\ UNCHANGED ret
    /\ UNCHANGED <<debator, query, provCalls, exc>>

\* variant: the topic instead of the generated query is researched
QueryReturnTopic ==
    /\ pc = "rr_query"
    /\ \E q \in Queries :
        /\ query' = q
        /\ provCalls' = Append(provCalls, idea)
    /\ pc' = "rr_research"
    /\ UNCHANGED <<rt, entry, idea, n_round, exc, debator, memory, news, idx,
                   rr_self, ret, research_log, current_speaker,
                   second_speaker, third_speaker, all_messages, debate_log,
                   msg, round_num, prompt, acts, evaluation, advice,
                   evalCalls, adviseCalls, genCalls, rrCalls, calls>>

\* query = await request_action.run(...) returns; research_topic(query) is called.
QueryReturn ==
    /\ pc = "rr_query"
    /\ \E q \in Queries :
        /\ query' = q
        /\ provCalls' = Append(provCalls, q)
    /\ pc' = "rr_research"
    /\ UNCHANGED <<rt, entry, idea, n_round, exc, debator, memory, news, idx,
                   rr_self, ret, research_log, current_speaker,
                   second_speaker, third_speaker, all_messages, debate_log,
                   msg, round_num, prompt, acts, evaluation, advice,
                   evalCalls, adviseCalls, genCalls, rrCalls, calls>>

\* request_action.run raises: nothing in request_research catches it.
QueryRaise ==
    /\ pc = "rr_query"
    /\ pc' = "raised"
    /\ exc' = Raised("GenerationFailure", pc)
    /\ UNCHANGED <<rt, entry, idea, n_round, debator, memory, news, idx, rr_self,
                   query, ret, research_log, current_speaker, second_speaker,
                   third_speaker, all_messages, debate_log, msg, round_num,
                   prompt, acts, evaluation, advice, evalCalls, adviseCalls,
                   genCalls, provCalls, rrCalls, calls>>

\* variant: the ledger is one object shared by all Debators
ResearchReturnShared ==
    /\ pc = "rr_research"
    /\ \E r \in Reports :
        /\ debator' = [a \in Names |->
                [debator[a] EXCEPT
                    !.research_info = LedgerAppend(@, query, r),
                    !.research_count = IF a = rr_self THEN @ + 1 ELSE @]]
        /\ ret' = r
    /\ pc' = "rr_returned"
    /\ UNCHANGED <<rt, entry, idea, n_round, exc, memory, news, idx, rr_self,
                   query, research_log, current_speaker, second_speaker,
                   third_speaker, all_messages, debate_log, msg, round_num,
                   prompt, acts, evaluation, advice, evalCalls, adviseCalls,
                   genCalls, provCalls, rrCalls, calls>>

\* research_topic returns: ledger and counter are updated, the report returned.
ResearchReturn ==
    /\ pc = "rr_research"
    /\ \E r \in Reports :
        /\ debator' = [debator EXCEPT
                ![rr_self].research_info = LedgerAppend(@, query, r),
                ![rr_self].research_count = @ + 1]
        /\ ret' = r
    /\ pc' = "rr_returned"
    /\ UNCHANGED <<rt, entry, idea, n_round, exc, memory, news, idx, rr_self,
                   query, research_log, current_speaker, second_speaker,
                   third_speaker, all_messages, debate_log, msg, round_num,
                   prompt, acts, evaluation, advice, evalCalls, adviseCalls,
                   genCalls, provCalls, rrCalls, calls>>

\* variant: the request is counted before the provider is awaited
ResearchRaiseCounted ==
    /\ pc = "rr_research"
    /\ pc' = "raised"
    /\ exc' = Raised("EvidenceFailure", pc)
    /\ debator' = [debator EXCEPT ![rr_self].research_count = @ + 1]
    /\ UNCHANGED <<rt, entry, idea, n_round, memory, news, idx, rr_self,
                   query, ret, research_log, current_speaker, second_speaker,
                   third_speaker, all_messages, debate_log, msg, round_num,
                   prompt, acts, evaluation, advice, evalCalls, adviseCalls,
                   genCalls, provCalls, rrCalls, calls>>

\* research_topic raises: nothing in request_research catches it.
ResearchRaise ==
    /\ pc = "rr_research"
    /\ pc' = "raised"
    /\ exc' = Raised("EvidenceFailure", pc)
    /\ UNCHANGED <<rt, entry, idea, n_round, debator, memory, news, idx, rr_self,
                   query, ret, research_log, current_speaker, second_speaker,
                   third_speaker, all_messages, debate_log, msg, round_num,
                   prompt, acts, evaluation, advice, evalCalls, adviseCalls,
                   genCalls, provCalls, rrCalls, calls>>

\* variant: the requests of all debaters are started together
ResearchPhaseGather ==
    /\ pc = "research_phase"
    /\ idx <= Len(debaters)
    /\ rr_self' = debaters[idx]
    /\ rrCalls' = [a \in Names |-> rrCalls[a] + 1]
    /\ genCalls' = genCalls + Len(debaters)
    /\ pc' = "rr_query"
    /\ UNCHANGED <<rt, entry, idea, n_round, exc, debator, memory, news, idx,
                   query, ret, research_log, current_speaker, second_speaker,
                   third_speaker, all_messages, debate_log, msg, round_num,
                   prompt, acts, evaluation, advice, evalCalls, adviseCalls,
                   provCalls, calls>>

\* ---- Researcher.research_topic ----
\* research_topic is not running
RtIdle ==
    [links |-> <<>>, i |-> 1, url_count |-> 0, summaries |-> <<>>,
     browsed |-> <<>>, synthesized |-> <<>>, pc |-> "idle"]

\* links = await collect_action.run(...) has returned; summaries = [];
\* url_count = 0; the loop over links.items() is at its first item.
RtStart(links) ==
    [links |-> links, i |-> 1, url_count |-> 0, summaries |-> <<>>,
     browsed |-> <<>>, synthesized |-> <<>>, pc |-> "loop"]

\* The results CollectLinks.run may return: a dict, in insertion order, of
\* sub-query -> list of URLs; c gives the number of URLs of each sub-query.
LinksOf(c) ==
    [k \in 1..Len(c) |->
        [query |-> k, urls |-> [j \in 1..c[k] |-> <<k, j>>]]]

LinkResults ==
    {LinksOf(c) : c \in UNION {[1..n -> 0..MaxLinks] : n \in 0..MaxSubQueries}}

\* urls[:n] for n >= 0
Take(urls, n) == SubSeq(urls, 1, IF n < Len(urls) THEN n ELSE Len(urls))

\* variant: the list is not cut to the remaining budget
limited_urls_all(urls, url_count) == urls

\* remaining_urls = 4 - url_count; limited_urls = urls[:remaining_urls]
limited_urls(urls, url_count) == Take(urls, 4 - url_count)

\* result = await browse_action.run(*limited_urls, query=query);
\* result.values(): one summary per URL
Summaries(urls) == [j \in 1..Len(urls) |-> <<"summary", urls[j]>>]

\* One iteration of "for query, urls in links.items()".
TopicBrowse ==
    /\ rt.pc = "loop"
    /\ rt.i <= Len(rt.links)
    /\ LET item == rt.links[rt.i]
       IN IF item.urls # <<>> /\ rt.url_count < 4
          THEN LET lim == limited_urls(item.urls, rt.url_count)
               IN rt' = [rt EXCEPT
                          !.browsed = Append(@, [query |-> item.query,
                                                 urls |-> lim]),
                          !.summaries = @ \o Summaries(lim),
                          !.url_count = @ + Len(lim),
                          !.i = @ + 1]
          ELSE rt' = [rt EXCEPT !.i = @ + 1]
    /\ UNCHANGED <<entry, idea, n_round, pc, exc, debator, memory, news, idx,
                   rr_self, query, ret, research_log, current_speaker,
                   second_speaker, third_speaker, all_messages, debate_log,
                   msg, round_num, prompt, acts, evaluation, advice,
                   evalCalls, adviseCalls, genCalls, provCalls, rrCalls,
                   calls>>

\* content = "\n---\n".join(summaries);
\* report = await research_action.run(topic, content); return report
TopicSynthesize ==
    /\ rt.pc = "loop"
    /\ rt.i > Len(rt.links)
    /\ rt' = [rt EXCEPT !.synthesized = Append(@, rt.summaries),
                        !.pc = "returned"]
    /\ UNCHANGED <<entry, idea, n_round, pc, exc, debator, memory, news, idx,
                   rr_self, query, ret, research_log, current_speaker,
                   second_speaker, third_speaker, all_messages, debate_log,
                   msg, round_num, prompt, acts, evaluation, advice,
                   evalCalls, adviseCalls, genCalls, provCalls, rrCalls,
                   calls>>

\* ---- research phase of debate / run_debate ----
\* for debater in debaters: await debater.request_research(idea, researcher)
ResearchPhaseCall ==
    /\ pc = "research_phase"
    /\ idx <= Len(debaters)
    /\ request_research(debaters[idx])
    /\ UNCHANGED <<rt, entry, idea, n_round, memory, news, idx, research_log,
                   current_speaker, second_speaker, third_speaker,
                   all_messages, debate_log, msg, round_num, prompt, acts,
                   evaluation, advice, evalCalls, adviseCalls, calls>>

\* request_research returned to the loop; run_debate logs the result.
ResearchPhaseReturn ==
    /\ pc = "rr_returned"
    /\ research_log' = IF entry = "form"
                       THEN Append(research_log,
                                   [debater |-> debator[debaters[idx]].name,
                                    research |-> ret])
                       ELSE research_log
    /\ idx' = idx + 1
    /\ pc' = "research_phase"
    /\ UNCHANGED <<rt, entry, idea, n_round, exc, debator, memory, news, rr_self,
                   query, ret, current_speaker, second_speaker, third_speaker,
                   all_messages, debate_log, msg, round_num, prompt, acts,
                   evaluation, advice, evalCalls, adviseCalls, genCalls,
                   provCalls, rrCalls, calls>>

\* ---- Message ----
\* Message(content=idea, role="user", send_to={"Principal"}, sent_from="User");
\* cause_by defaults to UserRequirement.  id stands for the message's unique id.
SeedMessage(topic) ==
    [id |-> 0, content |-> topic, role |-> "user",
     cause_by |-> "UserRequirement", sent_from |-> "User",
     send_to |-> {"Principal"}]

\* variant: the response is addressed to the first opponent only
ActMessageFirstOnly(d, rsp, n) ==
    [id |-> n, content |-> rsp, role |-> d.profile, cause_by |-> "SpeakAloud",
     sent_from |-> d.name,
     send_to |-> {d.opponent_name1}]

\* Message(content=rsp, role=self.profile, cause_by=type(todo),
\*         sent_from=self.name, send_to={self.opponent_name1, self.opponent_name2})
ActMessage(d, rsp, n) ==
    [id |-> n, content |-> rsp, role |-> d.profile, cause_by |-> "SpeakAloud",
     sent_from |-> d.name,
     send_to |-> {d.opponent_name1, d.opponent_name2}]

\* The loop is left after the research phase: speakers, all_messages, msg.
StartDebate ==
    /\ pc = "research_phase"
    /\ idx > Len(debaters)
    /\ current_speaker' = School.name
    /\ second_speaker' = Student.name
    /\ third_speaker' = Parent.name
    /\ all_messages' = <<>>
    /\ debate_log' = <<>>
    /\ msg' = SeedMessage(idea)
    /\ round_num' = 0
    /\ pc' = "round_loop"
    /\ UNCHANGED <<rt, entry, idea, n_round, exc, debator, memory, news, idx,
                   rr_self, query, ret, research_log, prompt, acts,
                   evaluation, advice, evalCalls, adviseCalls, genCalls,
                   provCalls, rrCalls, calls>>

\* ---- Debator._observe ----
\* rc.memory.add_batch(news): a message already stored is not stored again.
add_batch(mem, batch) ==
    mem \o SelectSeq(batch, LAMBDA m : ~InSeq(m, mem))

\* super()._observe(): the buffered messages that are watched or addressed
\* to the role and are not in memory yet.
base_observe(name, buffered, old) ==
    SelectSeq(buffered, LAMBDA n :
        (n.cause_by \in watch \/ name \in n.send_to) /\ ~InSeq(n, old))

\* variant: only a message addressed to the role alone is accepted
observe_singleton(name, buffered, old) ==
    SelectSeq(base_observe(name, buffered, old), LAMBDA m :
        m.send_to = {name})

\* self.rc.news = [msg for msg in self.rc.news
\*                 if self.name in msg.send_to or msg.send_to == {self.name}]
observe(name, buffered, old) ==
    SelectSeq(base_observe(name, buffered, old), LAMBDA m :
        name \in m.send_to \/ m.send_to = {name})

\* ---- Debator._act and SpeakAloud.run ----
\* context = "\n".join(f"{msg.sent_from}: {msg.content}" for msg in memories)
Context(memories) ==
    [i \in 1..Len(memories) |-> <<memories[i].sent_from, memories[i].content>>]

\* topic = self.get_memories()[0].content if self.get_memories() else "debate topic"
TopicOf(memories) ==
    IF Len(memories) > 0 THEN memories[1].content ELSE "debate topic"

\* variant: every remembered message is counted as a turn
speaker_turns_all(memories, name) == Len(memories)

\* speaker_turns = len([m for m in memories if m.sent_from == self.name])
speaker_turns(memories, name) ==
    Len(SelectSeq(memories, LAMBDA m : m.sent_from = name))

\* variant: the boundary is off by one
IsOpeningStrict(rn) == rn < 3

\* if round_num <= 3
IsOpening(rn) == rn <= 3

\* The instruction text of SpeakAloud.run, by what it directs the agent to do.
Instruction(e, rn) ==
    IF IsOpening(rn)
    THEN [phase |-> "opening", round_num |-> rn,
          directs |-> {"state view", "do not rebut", "cite"}]
    ELSE [phase |-> "rebuttal", round_num |-> rn,
          directs |-> IF e = "form"
                      THEN {"restate view", "respond to opponents", "defend",
                            "attack", "cite"}
                      ELSE {"defend", "attack", "rebut", "cite"}]

\* Arguments of todo.run(...) in _act, with the instruction run() derives.
ActArgs(e, d, memories) ==
    [context |-> Context(memories),
     name |-> d.name,
     opponent_name1 |-> d.opponent_name1,
     opponent_name2 |-> d.opponent_name2,
     idea |-> TopicOf(memories),
     profile |-> d.profile,
     round_num |-> speaker_turns(memories, d.name) + 1,
     research_info |-> d.research_info,
     instruction |-> Instruction(e, speaker_turns(memories, d.name) + 1)]

\* ---- the rotation of debate / run_debate ----
\* variant: the loop runs once more
LoopContinuesInclusive(r, n) == r <= n

\* for round_num in range(n_round)
LoopContinues(r, n) == r < n

\* variant: only the first two speakers are exchanged
RotateSwap(c, s, t) == <<s, c, t>>

\* current_speaker, second_speaker, third_speaker =
\*     third_speaker, current_speaker, second_speaker
Rotate(c, s, t) == <<t, c, s>>

\* response = await current_speaker.run(msg), up to the await in _act:
\* the message is buffered, observed and remembered; with no news run()
\* returns None and response.content raises.
RoundBegin ==
    /\ pc = "round_loop"
    /\ LoopContinues(round_num, n_round)
    /\ LET a == current_speaker
           old == memory[a]
           nws == observe(a, <<msg>>, old)
           mem == add_batch(old, <<msg>>)
       IN /\ memory' = [memory EXCEPT ![a] = mem]
          /\ news' = [news EXCEPT ![a] = nws]
          /\ IF Len(nws) = 0
             THEN /\ pc' = "raised"
                  /\ exc' = Raised("AttributeError", pc)
                  /\ UNCHANGED <<prompt, genCalls>>
             ELSE /\ pc' = "speaking"
                  /\ prompt' = ActArgs(entry, debator[a], mem)
                  /\ genCalls' = genCalls + 1
                  /\ UNCHANGED exc
    /\ UNCHANGED <<rt, entry, idea, n_round, debator, idx, rr_self, query, ret,
                   research_log, current_speaker, second_speaker,
                   third_speaker, all_messages, debate_log, msg, round_num,
                   acts, evaluation, advice, evalCalls, adviseCalls,
                   provCalls, rrCalls, calls>>

\* variant: the round is logged with the 0-based loop variable
DebateLogEntryZeroBased(rn, d, response) ==
    [round |-> rn, speaker |-> d.name, content |-> response.content]

\* debate_log.append({"round": round_num + 1, "speaker": current_speaker.name,
\*                    "content": response.content})
DebateLogEntry(rn, d, response) ==
    [round |-> rn + 1, speaker |-> d.name, content |-> response.content]

\* variant: the response is put in front of the stored messages
StoreInFront(stored, response) == <<response>> \o stored

\* all_messages.append(response)
Store(stored, response) == Append(stored, response)

\* todo.run returns: the message is built, remembered and returned; the
\* driver records it, rotates the speakers and hands it on.
SpeakReturn ==
    /\ pc = "speaking"
    /\ \E rsp \in Texts :
        LET a == current_speaker
            response == ActMessage(debator[a], rsp, round_num + 1)
            rot == Rotate(current_speaker, second_speaker, third_speaker)
        IN /\ memory' = [memory EXCEPT ![a] = add_batch(@, <<response>>)]
           /\ acts' = Append(acts, prompt)
           /\ debate_log' = IF entry = "form"
                            THEN Append(debate_log,
                                        DebateLogEntry(round_num, debator[a],
                                                       response))
                            ELSE debate_log
           /\ all_messages' = Store(all_messages, response)
           /\ current_speaker' = rot[1]
           /\ second_speaker' = rot[2]
           /\ third_speaker' = rot[3]
           /\ msg' = response
    /\ round_num' = round_num + 1
    /\ pc' = "round_loop"
    /\ UNCHANGED <<rt, entry, idea, n_round, exc, debator, news, idx, rr_self,
                   query, ret, research_log, prompt, evaluation, advice,
                   evalCalls, adviseCalls, genCalls, provCalls, rrCalls,
                   calls>>

\* variant: a failed turn is skipped and the rotation goes on
SpeakSkip ==
    /\ pc = "speaking"
    /\ LET rot == Rotate(current_speaker, second_speaker, third_speaker)
       IN /\ current_speaker' = rot[1]
          /\ second_speaker' = rot[2]
          /\ third_speaker' = rot[3]
    /\ round_num' = round_num + 1
    /\ pc' = "round_loop"
    /\ UNCHANGED <<rt, entry, idea, n_round, exc, debator, memory, news, idx,
                   rr_self, query, ret, research_log, all_messages,
                   debate_log, msg, prompt, acts, evaluation, advice,
                   evalCalls, adviseCalls, genCalls, provCalls, rrCalls,
                   calls>>

\* todo.run raises: neither _act, run nor the driver's loop catches it.
SpeakRaise ==
    /\ pc = "speaking"
    /\ pc' = "raised"
    /\ exc' = Raised("GenerationFailure", pc)
    /\ UNCHANGED <<rt, entry, idea, n_round, debator, memory, news, idx, rr_self,
                   query, ret, research_log, current_speaker, second_speaker,
                   third_speaker, all_messages, debate_log, msg, round_num,
                   prompt, acts, evaluation, advice, evalCalls, adviseCalls,
                   genCalls, provCalls, rrCalls, calls>>

\* ---- aggregation: DebateEvaluator.evaluate, DebateAdvisor.advise ----
\* variant: the lines are joined in reverse order
DebateContentReversed(debate_messages) ==
    [i \in 1..Len(debate_messages) |->
        <<debate_messages[Len(debate_messages) + 1 - i].sent_from,
          debate_messages[Len(debate_messages) + 1 - i].content>>]

\* debate_content = "\n\n".join(f"{msg.sent_from}: {msg.content}" for msg in debate_messages)
DebateContent(debate_messages) ==
    [i \in 1..Len(debate_messages) |->
        <<debate_messages[i].sent_from, debate_messages[i].content>>]

\* The loop is over: evaluator.evaluate(idea, all_messages), up to its await.
EvaluateCall ==
    /\ pc = "round_loop"
    /\ ~LoopContinues(round_num, n_round)
    /\ evalCalls' = Append(evalCalls,
                           [topic |-> idea,
                            debate_content |-> DebateContent(all_messages)])
    /\ genCalls' = genCalls + 1
    /\ pc' = "evaluating"
    /\ UNCHANGED <<rt, entry, idea, n_round, exc, debator, memory, news, idx,
                   rr_self, query, ret, research_log, current_speaker,
                   second_speaker, third_speaker, all_messages, debate_log,
                   msg, round_num, prompt, acts, evaluation, advice,
                   adviseCalls, provCalls, rrCalls, calls>>

\* evaluate returns; debate returns the evaluation, run_debate calls
\* advisor.advise(idea, evaluation).
EvaluateReturn ==
    /\ pc = "evaluating"
    /\ \E e \in Texts :
        /\ evaluation' = e
        /\ IF entry = "form"
           THEN /\ adviseCalls' = Append(adviseCalls,
                                         [topic |-> idea, evaluation |-> e])
                /\ genCalls' = genCalls + 1
                /\ pc' = "advising"
           ELSE /\ pc' = "done"
                /\ UNCHANGED <<adviseCalls, genCalls>>
    /\ UNCHANGED <<rt, entry, idea, n_round, exc, debator, memory, news, idx,
                   rr_self, query, ret, research_log, current_speaker,
                   second_speaker, third_speaker, all_messages, debate_log,
                   msg, round_num, prompt, acts, advice, evalCalls,
                   provCalls, rrCalls, calls>>

\* advise returns; run_debate returns its four results.
AdviseReturn ==
    /\ pc = "advising"
    /\ \E t \in Texts : advice' = t
    /\ pc' = "done"
    /\ UNCHANGED <<rt, entry, idea, n_round, exc, debator, memory, news, idx,
                   rr_self, query, ret, research_log, current_speaker,
                   second_speaker, third_speaker, all_messages, debate_log,
                   msg, round_num, prompt, acts, evaluation, evalCalls,
                   adviseCalls, genCalls, provCalls, rrCalls, calls>>

\* EvaluateDebate.run or ProvideAdvice.run raises; nothing catches it.
AggregateRaise ==
    /\ pc \in {"evaluating", "advising"}
    /\ pc' = "raised"
    /\ exc' = Raised("GenerationFailure", pc)
    /\ UNCHANGED <<rt, entry, idea, n_round, debator, memory, news, idx, rr_self,
                   query, ret, research_log, current_speaker, second_speaker,
                   third_speaker, all_messages, debate_log, msg, round_num,
                   prompt, acts, evaluation, advice, evalCalls, adviseCalls,
                   genCalls, provCalls, rrCalls, calls>>

\* ---- the session: debate(idea, n_round) / run_debate(idea, n_round) ----
\* State after the three Debators and the Researcher are constructed.
Fresh ==
    /\ idea = Topic
    /\ exc = NoException
    /\ debator = [a \in Names |->
                    CASE a = "Principal" -> School
                      [] a = "John" -> Student
                      [] a = "Mom" -> Parent]
    /\ memory = [a \in Names |-> <<>>]
    /\ news = [a \in Names |-> <<>>]
    /\ idx = 1
    /\ rr_self = "Principal"
    /\ query = ""
    /\ ret = ""
    /\ research_log = <<>>
    /\ current_speaker = "Principal"
    /\ second_speaker = "John"
    /\ third_speaker = "Mom"
    /\ all_messages = <<>>
    /\ debate_log = <<>>
    /\ msg = SeedMessage(Topic)
    /\ round_num = 0
    /\ prompt = ActArgs("cli", School, <<>>)
    /\ acts = <<>>
    /\ evaluation = ""
    /\ advice = ""
    /\ evalCalls = <<>>
    /\ adviseCalls = <<>>
    /\ genCalls = 0
    /\ provCalls = <<>>
    /\ rrCalls = [a \in Names |-> 0]
    /\ calls = 0

Init ==
    /\ entry \in Entries
    /\ n_round \in 0..MaxRounds
    /\ pc = "research_phase"
    /\ rt = RtIdle
    /\ Fresh

Next ==
    \/ ResearchPhaseCall
    \/ QueryReturn
    \/ QueryRaise
    \/ ResearchReturn
    \/ ResearchRaise
    \/ ResearchPhaseReturn
    \/ StartDebate
    \/ RoundBegin
    \/ SpeakReturn
    \/ SpeakRaise
    \/ EvaluateCall
    \/ EvaluateReturn
    \/ AdviseReturn
    \/ AggregateRaise

Spec == Init /\ [][Next]_vars

\* The event loop runs the coroutine until it returns or raises, and every
\* awaited call resolves.
FairSpec == Spec /\ WF_vars(Next)

\* ---- request_research called directly, any agent, any number of times ----
HarnessCall ==
    /\ pc = "idle"
    /\ calls < MaxCalls
    /\ calls' = calls + 1
    /\ \E a \in Names : request_research(a)
    /\ UNCHANGED <<rt, entry, idea, n_round, memory, news, idx, research_log,
                   current_speaker, second_speaker, third_speaker,
                   all_messages, debate_log, msg, round_num, prompt, acts,
                   evaluation, advice, evalCalls, adviseCalls>>

\* The call returned or raised; the caller goes on.
HarnessResume ==
    /\ pc \in {"rr_returned", "raised"}
    /\ pc' = "idle"
    /\ exc' = NoException
    /\ UNCHANGED <<rt, entry, idea, n_round, debator, memory, news, idx, rr_self,
                   query, ret, research_log, current_speaker, second_speaker,
                   third_speaker, all_messages, debate_log, msg, round_num,
                   prompt, acts, evaluation, advice, evalCalls, adviseCalls,
                   genCalls, provCalls, rrCalls, calls>>

GateInit ==
    /\ entry \in Entries
    /\ n_round = 0
    /\ pc = "idle"
    /\ rt = RtIdle
    /\ Fresh

GateNext ==
    \/ HarnessCall
    \/ QueryReturn
    \/ QueryRaise
    \/ ResearchReturn
    \/ ResearchRaise
    \/ HarnessResume

GateSpec == GateInit /\ [][GateNext]_vars

\* ---- research_topic on any result of link discovery ----
TopicInit ==
    /\ entry \in Entries
    /\ n_round = 0
    /\ pc = "rr_research"
    /\ rt \in {RtStart(l) : l \in LinkResults}
    /\ Fresh

TopicNext ==
    \/ TopicBrowse
    \/ TopicSynthesize

TopicSpec == TopicInit /\ [][TopicNext]_vars

\* ======================= properties =======================

\* the speaker (sent_from) of each round of the rotation
Speaker(i) == all_messages[i].sent_from

\* number of the first i acts that were made by agent n
OwnActs(n, i) == Cardinality({j \in 1..i : acts[j].name = n})

ExternalFailures == {"GenerationFailure", "EvidenceFailure"}

\* C1: whenever an agent acts, each earlier response of another agent is in
\* the acting agent's history (and so in the context of the act) if and only
\* if the acting agent is one of the response's recipients.
C1_DeliveryByAddressing ==
    pc = "speaking" =>
        \A i \in 1..Len(all_messages) :
            LET m == all_messages[i]
                a == current_speaker
            IN m.sent_from # a =>
                /\ InSeq(m, memory[a]) <=> a \in m.send_to
                /\ InSeq(<<m.sent_from, m.content>>, prompt.context)
                       <=> a \in m.send_to

\* C2: round 1 is spoken by Principal, the speakers of three consecutive
\* rounds are pairwise distinct, and round i+3 has the speaker of round i.
C2_SpeakerRotation ==
    \A i \in 1..Len(all_messages) :
        /\ i = 1 => Speaker(i) = "Principal"
        /\ i + 1 <= Len(all_messages) => Speaker(i + 1) # Speaker(i)
        /\ i + 2 <= Len(all_messages) =>
              /\ Speaker(i + 2) # Speaker(i)
              /\ Speaker(i + 2) # Speaker(i + 1)
        /\ i + 3 <= Len(all_messages) => Speaker(i + 3) = Speaker(i)

C2_Witness ==
    /\ pc = "done"
    /\ Len(all_messages) >= 7

\* C3: a turn appends exactly one message and nothing else changes the
\* transcript; the aggregation starts only after exactly n_round turns; and
\* unless an external call fails the session reaches its finished state, with
\* exactly n_round entries.
C3_BoundedRotation ==
    /\ [][Len(all_messages') =
            IF pc = "speaking" /\ pc' = "round_loop"
            THEN Len(all_messages) + 1 ELSE Len(all_messages)]_vars
    /\ [](pc \in {"evaluating", "advising", "done"} =>
            /\ round_num = n_round
            /\ Len(all_messages) = n_round
            /\ Len(acts) = n_round)
    /\ <>(pc = "done" \/ exc.kind \in ExternalFailures)

C3_Witness ==
    /\ pc = "done"
    /\ n_round >= 4
    /\ Len(all_messages) = n_round

\* C4: the Evaluator is called at most once and only after all n_round
\* turns, with the n_round responses in transcript order as speaker/content
\* lines; the Advisor is called at most once, only by run_debate and only
\* after the Evaluator has returned, with the Evaluator's output; a finished
\* session has made exactly these calls.
C4_AggregationOrder ==
    /\ Len(evalCalls) <= 1
    /\ Len(adviseCalls) <= 1
    /\ pc \in {"research_phase", "rr_query", "rr_research", "rr_returned",
               "round_loop", "speaking"} =>
            evalCalls = <<>> /\ adviseCalls = <<>>
    /\ Len(evalCalls) = 1 =>
            /\ Len(all_messages) = n_round
            /\ evalCalls[1].topic = idea
            /\ Len(evalCalls[1].debate_content) = n_round
            /\ \A i \in 1..n_round :
                  evalCalls[1].debate_content[i] =
                      <<all_messages[i].sent_from, all_messages[i].content>>
    /\ Len(adviseCalls) = 1 =>
            /\ entry = "form"
            /\ Len(evalCalls) = 1
            /\ evaluation \in Texts
            /\ adviseCalls[1].evaluation = evaluation
    /\ pc = "done" =>
            /\ Len(evalCalls) = 1
            /\ Len(adviseCalls) = (IF entry = "form" THEN 1 ELSE 0)

C4_Witness ==
    /\ pc = "done"
    /\ entry = "form"
    /\ Len(all_messages) >= 3
    /\ all_messages[1].content # all_messages[2].content
    /\ Len(adviseCalls) = 1

\* C5: when the Content Generator call of a turn resolves, either the turn
\* completes with one more entry or the session is aborted with the
\* transcript as it was; an aborted session takes no further step; and after
\* a failure in round k the transcript has the k-1 completed entries and
\* neither the Evaluator nor the Advisor has been called.
C5_GenerationFailureAborts ==
    /\ [][pc = "speaking" =>
            \/ /\ pc' = "round_loop"
               /\ Len(all_messages') = Len(all_messages) + 1
               /\ round_num' = round_num + 1
            \/ /\ pc' = "raised"
               /\ exc'.kind = "GenerationFailure"
               /\ all_messages' = all_messages
               /\ round_num' = round_num]_vars
    /\ [](pc = "raised" => ~ENABLED Next)
    /\ [](pc = "raised" /\ exc.at = "speaking" =>
            /\ round_num < n_round
            /\ Len(all_messages) = round_num
            /\ Len(acts) = round_num
            /\ evalCalls = <<>>
            /\ adviseCalls = <<>>)

C5_Witness ==
    /\ pc = "raised"
    /\ exc = Raised("GenerationFailure", "speaking")
    /\ round_num = 2
    /\ n_round = 6

\* C6: the k-th message authored by an agent is generated with turn number k.
C6_TurnNumbering ==
    /\ Len(acts) = Len(all_messages)
    /\ \A i \in 1..Len(acts) :
        /\ acts[i].name = all_messages[i].sent_from
        /\ acts[i].round_num = OwnActs(acts[i].name, i)
    /\ pc = "speaking" =>
        prompt.round_num = OwnActs(prompt.name, Len(acts)) + 1

C6_Witness ==
    /\ Len(acts) >= 9
    /\ \A a \in Names : \E i \in 1..Len(acts) :
          acts[i].name = a /\ acts[i].round_num = 3

\* C7: the opening instruction is selected exactly for turn numbers 1, 2, 3
\* and the rebuttal instruction exactly for turn numbers >= 4, for every agent.
C7_PhaseSelection ==
    \A i \in 1..Len(acts) :
        /\ acts[i].round_num >= 1
        /\ acts[i].instruction.phase \in {"opening", "rebuttal"}
        /\ acts[i].instruction.phase = "opening" <=>
               acts[i].round_num \in {1, 2, 3}
        /\ acts[i].instruction.phase = "rebuttal" <=> acts[i].round_num >= 4

C7_Witness ==
    \A a \in Names :
        /\ \E i \in 1..Len(acts) :
              /\ acts[i].name = a
              /\ acts[i].round_num = 3
              /\ acts[i].instruction.phase = "opening"
        /\ \E i \in 1..Len(acts) :
              /\ acts[i].name = a
              /\ acts[i].round_num = 4
              /\ acts[i].instruction.phase = "rebuttal"

\* C8: no agent's research_count ever exceeds its max_research (= 1),
\* whatever sequence of request_research calls is made.
C8_EvidenceBudget ==
    \A a \in Names :
        /\ debator[a].max_research = 1
        /\ debator[a].research_count <= debator[a].max_research

C8_Witness ==
    \E a \in Names :
        /\ debator[a].research_count = 1
        /\ rrCalls[a] >= 3
        /\ pc = "idle"

\* C9: a request_research call on an agent whose budget is exhausted returns
\* the refusal sentinel without raising, calls neither the Content Generator
\* nor the Evidence Provider, and changes no agent's ledger or counter.
C9_RefusalAfterExhaustion ==
    [][(pc = "idle" /\ pc' # "idle"
          /\ debator[rr_self'].research_count >= debator[rr_self'].max_research)
        => /\ pc' = "rr_returned"
           /\ ret' = LimitReached
           /\ exc' = NoException
           /\ genCalls' = genCalls
           /\ provCalls' = provCalls
           /\ debator' = debator]_vars

C9_Witness ==
    /\ pc = "rr_returned"
    /\ ret = LimitReached
    /\ rrCalls[rr_self] >= 2
    /\ debator[rr_self].research_count = 1

\* positions of the coroutine from the first turn of the rotation on
DebatePhase == {"round_loop", "speaking", "evaluating", "advising", "done"}

\* C10: when the rotation begins every agent has made exactly one evidence
\* request and it has completed; from then on no evidence request is made
\* and no agent's ledger or counter changes.
C10_ResearchPrecedesDebate ==
    /\ []((pc \in DebatePhase \/ exc.at \in DebatePhase) =>
            /\ Len(provCalls) = Cardinality(Names)
            /\ \A a \in Names :
                  /\ rrCalls[a] = 1
                  /\ debator[a].research_count = 1
                  /\ Len(debator[a].research_info) = 4)
    /\ [][(pc \in DebatePhase) =>
            (/\ rrCalls' = rrCalls
             /\ provCalls' = provCalls
             /\ debator' = debator
             /\ (pc' = "raised" \/ pc' \in DebatePhase))]_vars

C10_Witness ==
    /\ pc = "done"
    /\ n_round >= 3
    /\ \A a \in Names : rrCalls[a] = 1 /\ debator[a].research_count = 1


\* C11: a failure of the Evidence Provider during an agent's evidence request
\* does not abort the session: no state is the session ended by that failure.
C11_EvidenceFailureNotFatal ==
    ~(pc = "raised" /\ exc.kind = "EvidenceFailure")

\* C12: every message produced by an act is appended by the acting agent with
\* itself as sender, the speak action as cause and exactly the two other
\* agents as recipients; no message of the session has an empty recipient set.
C12_MessageAddressing ==
    /\ [][pc = "speaking" /\ pc' = "round_loop" =>
            /\ all_messages' = Append(all_messages, msg')
            /\ msg'.sent_from = current_speaker
            /\ msg'.cause_by = "SpeakAloud"
            /\ msg'.send_to = Names \ {current_speaker}]_vars
    /\ [](/\ msg.send_to # {}
          /\ \A i \in 1..Len(all_messages) :
                /\ all_messages[i].send_to # {}
                /\ Cardinality(all_messages[i].send_to) = 2
                /\ all_messages[i].send_to \subseteq Names
                /\ all_messages[i].sent_from \notin all_messages[i].send_to
                /\ all_messages[i].sent_from = acts[i].name
                /\ all_messages[i].cause_by = "SpeakAloud")

C12_Witness ==
    /\ Len(all_messages) >= 3
    /\ {all_messages[i].sent_from : i \in 1..Len(all_messages)} = Names

\* C13: in every act the topic handed to the Content Generator is the
\* session's topic text.
C13_TopicInEveryPrompt ==
    /\ pc = "speaking" => prompt.idea = idea
    /\ \A i \in 1..Len(acts) : acts[i].idea = idea


\* positions at which the coroutine is suspended on an external call
Awaiting == {"rr_query", "rr_research", "speaking", "evaluating", "advising"}

\* Content Generator calls that have returned or raised, counted from what
\* they left behind
GenResolved ==
    Len(provCalls) + Len(acts)
    + (IF evaluation = "" THEN 0 ELSE 1)
    + (IF advice = "" THEN 0 ELSE 1)
    + (IF exc.kind = "GenerationFailure" THEN 1 ELSE 0)

\* Evidence Provider calls that have returned or raised
ProvResolved ==
    debator["Principal"].research_count + debator["John"].research_count
    + debator["Mom"].research_count
    + (IF exc.kind = "EvidenceFailure" THEN 1 ELSE 0)

\* external calls started and not yet resolved
Outstanding == (genCalls - GenResolved) + (Len(provCalls) - ProvResolved)

\* C15: at most one external call is outstanding, and one is outstanding
\* exactly while the coroutine is suspended on it; a step starts at most one
\* call, and only when no other call remains outstanding; only the turn of
\* the acting agent appends to the transcript, once.
C15_StrictSerialization ==
    /\ [](/\ Outstanding \in {0, 1}
          /\ Outstanding = 1 <=> pc \in Awaiting
          /\ pc = "speaking" =>
                /\ prompt.name = current_speaker
                /\ Len(all_messages) = round_num)
    /\ [][/\ (genCalls' + Len(provCalls')) - (genCalls + Len(provCalls))
                \in {0, 1}
          /\ Len(all_messages') - Len(all_messages) \in {0, 1}
          /\ Len(all_messages') # Len(all_messages) =>
                /\ pc = "speaking"
                /\ all_messages'[Len(all_messages')].sent_from = prompt.name
                /\ round_num' = round_num + 1]_vars

C15_Witness ==
    /\ pc = "advising"
    /\ Outstanding = 1
    /\ genCalls = 3 + n_round + 2
    /\ Len(provCalls) = 3
    /\ n_round >= 3


\* creation order of the agents
CreationOrder == <<"Principal", "John", "Mom">>

\* C16: when run_debate has completed, the per-round log has n_round
\* entries, entry i holding round i and the sender and content of the i-th
\* transcript message; the research log has one entry per agent in creation
\* order, holding the report that agent's request returned.
C16_SessionOutputs ==
    /\ entry = "form" /\ pc \in DebatePhase =>
          Len(debate_log) = Len(all_messages)
    /\ entry = "form" /\ pc = "done" =>
          /\ Len(debate_log) = n_round
          /\ \A i \in 1..n_round :
                /\ debate_log[i].round = i
                /\ debate_log[i].speaker = all_messages[i].sent_from
                /\ debate_log[i].content = all_messages[i].content
          /\ Len(research_log) = 3
          /\ \A k \in 1..3 :
                /\ research_log[k].debater = CreationOrder[k]
                /\ research_log[k].research \in Reports
                /\ research_log[k].research =
                       debator[CreationOrder[k]].research_info[4]

C16_Witness ==
    /\ entry = "form"
    /\ pc = "done"
    /\ n_round >= 4
    /\ debate_log[1].content # debate_log[2].content


\* the order the claim derives from the wiring: first speaker, its first
\* listed opponent, then the third agent
WiringOrder == <<School.name, School.opponent_name1, School.opponent_name2>>

\* C17: the speaker of round i is the agent at position i (cyclically) of
\* Principal, John, Mom.
C17_RotationFollowsWiring ==
    \A i \in 1..Len(all_messages) : Speaker(i) = WiringOrder[((i - 1) % 3) + 1]

\* C18: the message handed to the speaker of every round lists the speaker
\* among its recipients and is not the speaker's own: the seed in round 1, the
\* previous response afterwards; observe then returns at least one message
\* and no turn ends without a response.
C18_EveryHopDeliverable ==
    /\ pc = "round_loop" /\ round_num < n_round =>
          /\ current_speaker \in msg.send_to
          /\ msg.sent_from # current_speaker
          /\ IF round_num = 0
             THEN /\ msg.sent_from = "User"
                  /\ msg.send_to = {"Principal"}
                  /\ msg.content = idea
             ELSE msg = all_messages[round_num]
    /\ pc = "speaking" =>
          /\ Len(news[current_speaker]) >= 1
          /\ news[current_speaker][Len(news[current_speaker])] = msg
    /\ exc.kind # "AttributeError"
    /\ pc = "round_loop" => Len(all_messages) = round_num

C18_Witness ==
    /\ pc = "speaking"
    /\ round_num >= 3
    /\ current_speaker = "Principal"
    /\ Len(news[current_speaker]) = 1

\* C19: an opening instruction never directs the agent to address or rebut
\* opponents, and a rebuttal instruction always directs it to restate its own
\* position and to rebut the opponents, in both entry points.
C19_InstructionContent ==
    \A i \in 1..Len(acts) :
        LET ins == acts[i].instruction
        IN /\ acts[i].round_num <= 3 =>
                ins.directs \cap {"rebut", "respond to opponents", "attack"} = {}
           /\ acts[i].round_num >= 4 =>
                /\ "restate view" \in ins.directs
                /\ ins.directs \cap {"rebut", "respond to opponents", "attack"} # {}

\* the agent a step belongs to: the requester of the research phase, the
\* speaker of a turn
Actor ==
    IF pc \in {"research_phase", "rr_query", "rr_research", "rr_returned"}
    THEN (IF idx <= Len(CreationOrder) THEN CreationOrder[idx] ELSE "nobody")
    ELSE IF pc \in {"round_loop", "speaking"} THEN current_speaker
    ELSE "nobody"

\* C20: a step of a turn or of an evidence request leaves every other agent's
\* history, news, ledger and counter unchanged, and no step changes any
\* agent's name, profile or opponents.
C20_AgentLocalFrame ==
    /\ [][\A a \in Names :
            /\ a # Actor =>
                  /\ memory'[a] = memory[a]
                  /\ news'[a] = news[a]
                  /\ debator'[a] = debator[a]
            /\ debator'[a].name = debator[a].name
            /\ debator'[a].profile = debator[a].profile
            /\ debator'[a].opponent_name1 = debator[a].opponent_name1
            /\ debator'[a].opponent_name2 = debator[a].opponent_name2]_vars
    /\ [](\A a \in Names :
            /\ debator[a].name = a
            /\ {debator[a].opponent_name1, debator[a].opponent_name2}
                   = Names \ {a})

C20_Witness ==
    /\ pc = "done"
    /\ n_round >= 3
    /\ \A a \in Names :
          /\ Len(memory[a]) >= 2
          /\ debator[a].research_count = 1


\* C21: the transcript of a state is a prefix of the transcript of the next
\* state: entries are never removed, reordered or altered, and an appended
\* entry takes the position after all earlier ones.
C21_AppendOnlyTranscript ==
    /\ [][/\ Len(all_messages') >= Len(all_messages)
          /\ \A i \in 1..Len(all_messages) : all_messages'[i] = all_messages[i]
          /\ Len(all_messages') > Len(all_messages) =>
                /\ Len(all_messages') = Len(all_messages) + 1
                /\ all_messages'[Len(all_messages) + 1] = msg']_vars
    /\ [](\A i \in 1..Len(all_messages) : \A j \in 1..Len(all_messages) :
            i < j => /\ all_messages[i].id < all_messages[j].id
                     /\ all_messages[i] # all_messages[j])

C21_Witness ==
    /\ Len(all_messages) >= 4
    /\ all_messages[1].content # all_messages[2].content


\* the URLs of a sequence of (sub-query, URL list) items, in order
RECURSIVE AllUrls(_)
AllUrls(items) ==
    IF items = <<>> THEN <<>> ELSE Head(items).urls \o AllUrls(Tail(items))

\* C22: whatever link discovery returned, research_topic hands at most 4
\* URLs in all to retrieval, namely the first 4 (or all, if fewer) in order;
\* it makes no retrieval call for a sub-query without links or once 4 URLs
\* have been used, and it ends with exactly one report-synthesis call.
C22_SourceCap ==
    /\ [](/\ Len(AllUrls(rt.browsed)) <= 4
          /\ rt.url_count = Len(AllUrls(rt.browsed))
          /\ Len(rt.summaries) = Len(AllUrls(rt.browsed))
          /\ \A b \in 1..Len(rt.browsed) : rt.browsed[b].urls # <<>>
          /\ rt.pc = "loop" => rt.synthesized = <<>>
          /\ rt.pc = "returned" =>
                /\ Len(rt.synthesized) = 1
                /\ Len(AllUrls(rt.browsed)) =
                      (IF Len(AllUrls(rt.links)) < 4
                       THEN Len(AllUrls(rt.links)) ELSE 4)
                /\ AllUrls(rt.browsed) =
                      SubSeq(AllUrls(rt.links), 1, Len(AllUrls(rt.browsed))))
    /\ [][Len(rt.browsed') # Len(rt.browsed) =>
            /\ Len(rt.browsed') = Len(rt.browsed) + 1
            /\ Len(AllUrls(rt.browsed)) < 4
            /\ rt.links[rt.i].urls # <<>>
            /\ rt.browsed'[Len(rt.browsed')].query = rt.links[rt.i].query]_vars

C22_Witness ==
    /\ rt.pc = "returned"
    /\ Len(rt.links) = 3
    /\ Len(rt.links[1].urls) = 3
    /\ rt.links[2].urls = <<>>
    /\ Len(rt.links[3].urls) = 3
    /\ rt.url_count = 4
    /\ Len(rt.browsed) = 2


\* C23: a request made with budget left makes one Content Generator call,
\* then one Evidence Provider call with the generated query; when the
\* provider returns, the ledger is extended (its previous content kept as a
\* prefix) by a block holding that query and that report, the counter grows
\* by exactly 1 and the report is returned; after the research phase every
\* agent's counter is 1.
C23_SuccessfulRequest ==
    /\ [][pc = "research_phase" /\ pc' = "rr_query" =>
            /\ genCalls' = genCalls + 1
            /\ provCalls' = provCalls
            /\ debator' = debator]_vars
    /\ [][pc = "rr_query" /\ pc' = "rr_research" =>
            /\ genCalls' = genCalls
            /\ query' \in Queries
            /\ provCalls' = Append(provCalls, query')
            /\ debator' = debator]_vars
    /\ [][pc = "rr_research" /\ pc' = "rr_returned" =>
            LET old == debator[rr_self].research_info
                new == debator'[rr_self].research_info
            IN /\ genCalls' = genCalls
               /\ provCalls' = provCalls
               /\ provCalls[Len(provCalls)] = query
               /\ ret' \in Reports
               /\ Len(new) = Len(old) + 4
               /\ SubSeq(new, 1, Len(old)) = old
               /\ new[Len(old) + 2] = query
               /\ new[Len(old) + 4] = ret'
               /\ debator'[rr_self].research_count =
                      debator[rr_self].research_count + 1]_vars
    /\ [](pc \in DebatePhase =>
            /\ genCalls >= 3
            /\ \A a \in Names : debator[a].research_count = 1)

C23_Witness ==
    /\ pc = "round_loop"
    /\ round_num = 0
    /\ Len(provCalls) = 3
    /\ \A a \in Names :
          /\ debator[a].research_count = 1
          /\ Len(debator[a].research_info) = 4

\* C24: every act of rounds 1..9 is in the opening phase and every act from
\* round 10 on is in the rebuttal phase, the first being round 10 by
\* Principal; so a finished session holds a rebuttal-phase act if and only
\* if n_round >= 10, and none with 5 or 6 rounds.
C24_RebuttalReachability ==
    /\ \A i \in 1..Len(acts) :
          /\ i <= 9 => acts[i].instruction.phase = "opening"
          /\ i >= 10 => acts[i].instruction.phase = "rebuttal"
          /\ i = 10 => acts[i].name = "Principal"
    /\ pc = "done" =>
          /\ Len(acts) = n_round
          /\ (\E i \in 1..Len(acts) : acts[i].instruction.phase = "rebuttal")
                <=> n_round >= 10
          /\ n_round \in {5, 6} =>
                \A i \in 1..Len(acts) : acts[i].instruction.phase = "opening"

C24_Witness ==
    /\ pc = "done"
    /\ n_round = 10
    /\ acts[9].instruction.phase = "opening"
    /\ acts[10].instruction.phase = "rebuttal"

\* C25: when the Content Generator call or the Evidence Provider call of a
\* request raises, no agent's ledger or counter changes; the counter of an
\* agent is the number of blocks in its ledger, and a request by an agent
\* whose counter is below its cap is not refused.
C25_FailedRequestNoEffect ==
    /\ [][(pc \in {"rr_query", "rr_research"}) /\ pc' = "raised" =>
            /\ debator' = debator
            /\ exc'.kind \in ExternalFailures]_vars
    /\ [](\A a \in Names :
            4 * debator[a].research_count = Len(debator[a].research_info))
    /\ [][pc = "idle" /\ pc' # "idle"
            /\ debator[rr_self'].research_count < debator[rr_self'].max_research
          => /\ pc' = "rr_query"
             /\ ret' = ret]_vars

C25_Witness ==
    /\ pc = "rr_returned"
    /\ ret \in Reports
    /\ rrCalls[rr_self] = 3
    /\ debator[rr_self].research_count = 1
    /\ \A a \in Names : a # rr_self => rrCalls[a] = 0

====
